---- MODULE Spec2Model ----
(***************************************************************************)
(* Model of sync_copilot_files.py: one run of the script that refreshes    *)
(* the .instructions.md files of a VS Code prompts directory from the      *)
(* github/awesome-copilot repository.                                      *)
(*                                                                         *)
(* File names are sequences of one-character strings, so that the suffix   *)
(* test and the ordering of sorted() are computed as Python computes them. *)
(***************************************************************************)
EXTENDS Integers, Sequences, FiniteSets, TLC

\* ------------------------------------------------------------------ bounds
\* Longest remote directory listing (number of JSON array items) explored.
MaxListing == 3

\* ------------------------------------------------------------ file names
\* The literal ".instructions.md" of lines 44 and 64.
Suffix == <<".", "i", "n", "s", "t", "r", "u", "c", "t", "i", "o", "n", "s", ".", "m", "d">>

NameA == <<"a">> \o Suffix
NameB == <<"B">> \o Suffix
NameDot == Suffix
NameMd == <<"a", ".", "m", "d">>
NameNoDot == <<"a">> \o Tail(Suffix)

\* The file names that the prompts directory and the remote listing draw from.
Names == {NameA, NameB, NameDot, NameMd, NameNoDot}

\* Unicode code point of a character (Python compares str by code point).
Ord(c) ==
    CASE c = "." -> 46
      [] c = "B" -> 66
      [] c = "a" -> 97
      [] c = "c" -> 99
      [] c = "d" -> 100
      [] c = "i" -> 105
      [] c = "m" -> 109
      [] c = "n" -> 110
      [] c = "o" -> 111
      [] c = "r" -> 114
      [] c = "s" -> 115
      [] c = "t" -> 116
      [] c = "u" -> 117

EndsWithExtension(s, suffix) ==
    /\ Len(s) >= 3
    /\ \A i \in 1..3 : s[Len(s) - 3 + i] = suffix[Len(suffix) - 3 + i]

\* str.endswith: the last Len(suffix) characters of s are suffix.
EndsWith(s, suffix) ==
    /\ Len(s) >= Len(suffix)
    /\ \A i \in 1..Len(suffix) : s[Len(s) - Len(suffix) + i] = suffix[i]

\* Python's str.__lt__: lexicographic by code point, a proper prefix is less.
StrLess(s, t) ==
    \E k \in 1..(Len(t)) :
        /\ \A i \in 1..(k - 1) : i <= Len(s) /\ s[i] = t[i]
        /\ \/ k = Len(s) + 1
           \/ k <= Len(s) /\ Ord(s[k]) < Ord(t[k])

RECURSIVE sortedDescending(_)
sortedDescending(S) ==
    IF S = {} THEN <<>>
    ELSE LET m == CHOOSE x \in S : \A y \in S \ {x} : StrLess(y, x)
         IN  <<m>> \o sortedDescending(S \ {m})

\* sorted(): the elements of a set of names as an ascending list.
RECURSIVE sorted(_)
sorted(S) ==
    IF S = {} THEN <<>>
    ELSE LET m == CHOOSE x \in S : \A y \in S \ {x} : StrLess(x, y)
         IN  <<m>> \o sorted(S \ {m})

\* set(list): the elements of a list.
set(l) == {l[i] : i \in 1..Len(l)}

\* ------------------------------------------------------- the file system
Absent == "absent"
\* Text of a file: the original local text, a newer text, or an empty file.
LocalTexts == {"v0"}
RemoteTexts == {"v0", "v1"}
Truncated == ""

\* os.listdir: the names that exist in the directory, in a fixed order.
listdir(d) == sorted({n \in Names : d[n] # Absent})

\* ------------------------------------------------- the remote listing
\* Items of the JSON array returned by the contents API:
\* a dict with a string "name", a dict without "name", a dict whose "name"
\* is not a string, and an item that is not a dict.
Items ==
    [kind : {"dict"}, name : Names]
        \cup {[kind |-> "dict_noname"], [kind |-> "dict_badname"], [kind |-> "other"]}

RECURSIVE SeqsUpTo(_, _)
SeqsUpTo(S, n) ==
    IF n = 0 THEN {<<>>}
    ELSE LET shorter == SeqsUpTo(S, n - 1)
         IN  shorter \cup {Append(s, x) : s \in {t \in shorter : Len(t) = n - 1}, x \in S}

Listings == SeqsUpTo(Items, MaxListing)

\* Responses of the listing request: requests.get raises, or it returns a
\* status code and a body that is either not JSON or a JSON array.
StatusCodes == {200, 403, 404}
NoResponse == [raised |-> TRUE, status_code |-> 0, valid_json |-> FALSE, json |-> <<>>]
ListingResponses ==
    {NoResponse}
        \cup [raised : {FALSE}, status_code : StatusCodes, valid_json : {TRUE}, json : Listings]
        \cup [raised : {FALSE}, status_code : StatusCodes, valid_json : {FALSE}, json : {<<>>}]

\* Result of a call: the returned list, or an exception leaving the function.
Raised == [raised |-> TRUE, files |-> <<>>]
Returned(l) == [raised |-> FALSE, files |-> l]

\* item.get("name", "") of a dict item.
ItemName(item) == IF item.kind = "dict" THEN item.name ELSE <<>>

\* The loop of lines 43-45 over the items of the array, in order.
RECURSIVE FilterItems(_)
FilterItems(data) ==
    IF data = <<>> THEN Returned(<<>>)
    ELSE LET item == Head(data)
             rest == FilterItems(Tail(data))
         IN  IF item.kind = "other" THEN rest
             ELSE IF item.kind = "dict_badname" THEN Raised
             ELSE IF EndsWith(ItemName(item), Suffix) /\ ~rest.raised
                  THEN Returned(<<ItemName(item)>> \o rest.files)
                  ELSE rest

get_github_files_any_status(response) ==
    IF response.raised THEN Raised
    ELSE IF ~response.valid_json THEN Raised
    ELSE FilterItems(response.json)

\* get_github_files: the list of remote names, or the exception that leaves
\* the function (requests.get, response.json or str.endswith raising).
get_github_files(response) ==
    IF response.raised THEN Raised
    ELSE IF response.status_code # 200 THEN Returned(<<>>)
    ELSE IF ~response.valid_json THEN Raised
    ELSE FilterItems(response.json)

\* get_local_files: the suffix-filtered names of the directory.
get_local_files(exists, d) ==
    IF ~exists THEN <<>>
    ELSE SelectSeq(listdir(d), LAMBDA file : EndsWith(file, Suffix))

\* ------------------------------------------------------ the environment
\* os.environ.get("APPDATA"): None when the variable is not set.
None == "None"
AppDataValues == {None, "", "C:/Users/u/AppData/Roaming"}

\* Outcomes of one content download: a body is received and written, or
\* requests.get raises, raise_for_status raises, open raises, or write
\* raises after open has truncated the file.
DownloadOutcomes ==
    [kind : {"ok"}, text : RemoteTexts]
        \cup [kind : {"request_exception", "http_error", "open_error", "write_error"},
              text : {Truncated}]

\* ---------------------------------------------------------------- state
VARIABLES
    pc,                 \* position of the script
    appdata,            \* value of the APPDATA environment variable
    dir_exists,         \* the prompts directory exists
    disk,               \* file name -> text of the file, or Absent
    initial,            \* the directory and its files when the script starts
    response,           \* the response of the listing request, once received
    github_files,       \* local variable of sync_copilot_files
    local_files,        \* local variable of sync_copilot_files
    files_to_update,    \* local variable of sync_copilot_files
    files_to_preserve,  \* local variable of sync_copilot_files
    remaining,          \* the part of sorted(files_to_update) not yet iterated
    file_name,          \* loop variable of the update loop
    total_downloaded,   \* local variable of sync_copilot_files
    in_flight,          \* requests sent whose call has not returned
    listing_requests,   \* number of GETs sent to the contents API
    fetch_log,          \* names whose raw content was requested, in order
    returned,           \* file name -> value returned by download_file
    outcome_kind,       \* file name -> how its download ended
    settings_file,      \* the settings document on disk, or Missing
    settings,           \* the settings mapping in memory
    loaded_settings,    \* the mapping as it was loaded
    settings_pc         \* position of the settings update

vars ==
    <<pc, appdata, dir_exists, disk, initial, response, github_files, local_files,
      files_to_update, files_to_preserve, remaining, file_name, total_downloaded,
      in_flight, listing_requests, fetch_log, returned, outcome_kind,
      settings_file, settings, loaded_settings, settings_pc>>

settings_vars == <<settings_file, settings, loaded_settings, settings_pc>>
env == <<appdata, initial, settings_vars>>
locals == <<github_files, local_files, files_to_update, files_to_preserve,
            remaining, file_name, total_downloaded>>

\* ------------------------------------------------- the settings document
\* The settings document is a JSON object; its text on disk is a list of
\* tokens. The key of the file list and two keys the update does not touch;
\* every value is written as a list of strings.
ListKey == "files"
SettingsKeys == {"a.other", ListKey, "z.other"}
KeyRank(k) == CASE k = "a.other" -> 1 [] k = ListKey -> 2 [] k = "z.other" -> 3
Missing == <<[t |-> "missing"]>>
EmptyMapping == [k \in {} |-> <<>>]
SettingsValues(k) ==
    IF k = ListKey THEN {<<>>, <<NameMd>>, <<NameB, NameA>>} ELSE {<<NameNoDot>>, <<NameDot, NameMd>>}
Mappings ==
    UNION {{m \in [D -> UNION {SettingsValues(k) : k \in SettingsKeys}] :
                \A k \in D : m[k] \in SettingsValues(k)} : D \in SUBSET SettingsKeys}

RECURSIVE KeysInOrder(_)
KeysInOrder(D) ==
    IF D = {} THEN <<>>
    ELSE LET k == CHOOSE x \in D : \A y \in D : KeyRank(x) <= KeyRank(y)
         IN  <<k>> \o KeysInOrder(D \ {k})

RECURSIVE Members(_, _)
Members(m, keys) ==
    IF keys = <<>> THEN <<>>
    ELSE <<[t |-> "key", v |-> Head(keys)], [t |-> "colon"],
           [t |-> "value", v |-> m[Head(keys)]]>>
             \o (IF Tail(keys) = <<>> THEN <<>> ELSE <<[t |-> "comma"]>>)
             \o Members(m, Tail(keys))

\* Serialisation with a stable layout: the members in a fixed key order.
Serialize(m) ==
    <<[t |-> "lbrace"]>> \o Members(m, KeysInOrder(DOMAIN m)) \o <<[t |-> "rbrace"]>>

\* The text is one JSON object: braces around key, colon, value groups
\* separated by commas, no key twice.
ValidJSON(text) ==
    /\ Len(text) >= 2
    /\ text[1] = [t |-> "lbrace"]
    /\ text[Len(text)] = [t |-> "rbrace"]
    /\ (Len(text) - 2) % 4 = (IF Len(text) = 2 THEN 0 ELSE 3)
    /\ \A i \in 2..(Len(text) - 1) :
        CASE (i - 2) % 4 = 0 -> text[i].t = "key"
          [] (i - 2) % 4 = 1 -> text[i].t = "colon"
          [] (i - 2) % 4 = 2 -> text[i].t = "value"
          [] (i - 2) % 4 = 3 -> text[i].t = "comma"
    /\ \A i, j \in 2..(Len(text) - 1) :
        (text[i].t = "key" /\ text[j].t = "key" /\ text[i].v = text[j].v) => i = j

\* The mapping a JSON object text denotes.
Parse(text) ==
    LET keyAt == {i \in 2..(Len(text) - 1) : text[i].t = "key"}
    IN  [k \in {text[i].v : i \in keyAt} |->
            text[(CHOOSE i \in keyAt : text[i].v = k) + 2].v]

NotReceived == [raised |-> FALSE, status_code |-> 0, valid_json |-> FALSE, json |-> <<>>]
NoFile == <<>>
ListingRequest == [kind |-> "listing"]
ContentRequest(n) == [kind |-> "content", name |-> n]

Init ==
    /\ pc = "main"
    /\ appdata \in AppDataValues
    /\ dir_exists \in BOOLEAN
    /\ disk \in [Names -> LocalTexts \cup {Absent}]
    /\ ~dir_exists => \A n \in Names : disk[n] = Absent
    /\ initial = [dir_exists |-> dir_exists, disk |-> disk]
    /\ response = NotReceived
    /\ github_files = {}
    /\ local_files = {}
    /\ files_to_update = {}
    /\ files_to_preserve = {}
    /\ remaining = <<>>
    /\ file_name = NoFile
    /\ total_downloaded = 0
    /\ in_flight = {}
    /\ listing_requests = 0
    /\ fetch_log = <<>>
    /\ returned = [n \in Names |-> "none"]
    /\ outcome_kind = [n \in Names |-> "none"]
    /\ settings_file = Missing
    /\ settings = EmptyMapping
    /\ loaded_settings = EmptyMapping
    /\ settings_pc = "idle"

TruthyIfNotNone(value) == value # None

\* Truth value of an optional str: None and "" are false.
Truthy(value) == value # None /\ value # ""

\* __main__, lines 162-164: raise ValueError when APPDATA is not usable.
MainAbort ==
    /\ pc = "main"
    /\ ~Truthy(appdata)
    /\ pc' = "aborted"
    /\ UNCHANGED <<env, dir_exists, disk, response, locals, in_flight,
                   listing_requests, fetch_log, returned, outcome_kind>>

\* __main__, lines 167-177: build prompts_dir and call sync_copilot_files.
MainCall ==
    /\ pc = "main"
    /\ Truthy(appdata)
    /\ pc' = "mkdir"
    /\ UNCHANGED <<env, dir_exists, disk, response, locals, in_flight,
                   listing_requests, fetch_log, returned, outcome_kind>>

\* Line 105: Path(prompts_dir).mkdir(parents=True, exist_ok=True). An existing
\* directory is accepted; creating a missing one succeeds or raises OSError,
\* which leaves sync_copilot_files and ends the run.
Mkdir ==
    /\ pc = "mkdir"
    /\ \E created \in BOOLEAN :
        /\ ~created => ~dir_exists
        /\ dir_exists' = (dir_exists \/ created)
        /\ pc' = IF dir_exists \/ created THEN "get_github_files" ELSE "crashed"
    /\ UNCHANGED <<env, disk, response, locals, in_flight,
                   listing_requests, fetch_log, returned, outcome_kind>>

\* Line 33: the GET of the directory listing is sent.
SendListingRequest ==
    /\ pc = "get_github_files"
    /\ in_flight' = in_flight \cup {ListingRequest}
    /\ listing_requests' = listing_requests + 1
    /\ pc' = "await_listing"
    /\ UNCHANGED <<env, dir_exists, disk, response, locals, fetch_log, returned, outcome_kind>>

\* Lines 33-47 and 109: the listing call returns and get_github_files
\* finishes; an exception leaves sync_copilot_files and ends the run.
ReceiveListing ==
    /\ pc = "await_listing"
    /\ \E r \in ListingResponses :
        LET result == get_github_files(r)
        IN  /\ response' = r
            /\ in_flight' = in_flight \ {ListingRequest}
            /\ IF result.raised
               THEN /\ pc' = "crashed"
                    /\ UNCHANGED github_files
               ELSE /\ pc' = "get_local_files"
                    /\ github_files' = set(result.files)
    /\ UNCHANGED <<env, dir_exists, disk, local_files, files_to_update,
                   files_to_preserve, remaining, file_name, total_downloaded,
                   listing_requests, fetch_log, returned, outcome_kind>>

\* Line 113: local_files = set(get_local_files(prompts_dir)).
ScanLocal ==
    /\ pc = "get_local_files"
    /\ local_files' = set(get_local_files(dir_exists, disk))
    /\ pc' = "plan"
    /\ UNCHANGED <<env, dir_exists, disk, response, github_files, files_to_update,
                   files_to_preserve, remaining, file_name, total_downloaded,
                   in_flight, listing_requests, fetch_log, returned, outcome_kind>>

UpdateAllRemote(remote, local) == remote

UpdateAllLocal(remote, local) == local

\* Line 117: github_files.intersection(local_files).
UpdateSet(remote, local) == remote \cap local

PreserveAllLocal(remote, local) == local

\* Line 118: local_files - github_files.
PreserveSet(remote, local) == local \ remote

\* Lines 117-140: the two sets, the counter and the iteration order.
Plan ==
    /\ pc = "plan"
    /\ files_to_update' = UpdateSet(github_files, local_files)
    /\ files_to_preserve' = PreserveSet(github_files, local_files)
    /\ total_downloaded' = 0
    /\ remaining' = sorted(UpdateSet(github_files, local_files))
    /\ pc' = "loop"
    /\ UNCHANGED <<env, dir_exists, disk, response, github_files, local_files,
                   file_name, in_flight, listing_requests, fetch_log, returned, outcome_kind>>

\* Lines 140-143 and 82: the next file is taken and its GET is sent.
SendContentRequest ==
    /\ pc = "loop"
    /\ remaining # <<>>
    /\ file_name' = Head(remaining)
    /\ remaining' = Tail(remaining)
    /\ in_flight' = in_flight \cup {ContentRequest(Head(remaining))}
    /\ fetch_log' = Append(fetch_log, Head(remaining))
    /\ pc' = "download_file"
    /\ UNCHANGED <<env, dir_exists, disk, response, github_files, local_files,
                   files_to_update, files_to_preserve, total_downloaded,
                   listing_requests, returned, outcome_kind>>

WrittenOpenFirst(old, outcome) ==
    IF outcome.kind = "ok" THEN outcome.text ELSE Truncated

\* Lines 82-92: what download_file leaves in the target file.
Written(old, outcome) ==
    CASE outcome.kind = "ok" -> outcome.text
      [] outcome.kind = "write_error" -> Truncated
      [] OTHER -> old

\* Lines 89 and 92: the value download_file returns.
Succeeded(outcome) == outcome.kind = "ok"

FinishDownloadBreak ==
    /\ pc = "download_file"
    /\ \E outcome \in DownloadOutcomes :
        /\ disk' = [disk EXCEPT ![file_name] = Written(disk[file_name], outcome)]
        /\ returned' = [returned EXCEPT ![file_name] =
                            IF Succeeded(outcome) THEN "True" ELSE "False"]
        /\ outcome_kind' = [outcome_kind EXCEPT ![file_name] = outcome.kind]
        /\ total_downloaded' =
               IF Succeeded(outcome) THEN total_downloaded + 1 ELSE total_downloaded
        /\ remaining' = IF Succeeded(outcome) THEN remaining ELSE <<>>
    /\ in_flight' = in_flight \ {ContentRequest(file_name)}
    /\ pc' = "loop"
    /\ UNCHANGED <<env, dir_exists, response, github_files, local_files,
                   files_to_update, files_to_preserve, file_name,
                   listing_requests, fetch_log>>

\* Lines 82-92 and 143-144: download_file finishes and the loop counts it.
FinishDownload ==
    /\ pc = "download_file"
    /\ \E outcome \in DownloadOutcomes :
        /\ disk' = [disk EXCEPT ![file_name] = Written(disk[file_name], outcome)]
        /\ returned' = [returned EXCEPT ![file_name] =
                            IF Succeeded(outcome) THEN "True" ELSE "False"]
        /\ outcome_kind' = [outcome_kind EXCEPT ![file_name] = outcome.kind]
        /\ total_downloaded' =
               IF Succeeded(outcome) THEN total_downloaded + 1 ELSE total_downloaded
    /\ in_flight' = in_flight \ {ContentRequest(file_name)}
    /\ pc' = "loop"
    /\ UNCHANGED <<env, dir_exists, response, github_files, local_files,
                   files_to_update, files_to_preserve, remaining, file_name,
                   listing_requests, fetch_log>>

\* Lines 146-157: the preserved files and the statistics are printed.
Report ==
    /\ pc = "loop"
    /\ remaining = <<>>
    /\ pc' = "done"
    /\ UNCHANGED <<env, dir_exists, disk, response, locals, in_flight,
                   listing_requests, fetch_log, returned, outcome_kind>>

Next ==
    \/ MainAbort
    \/ MainCall
    \/ Mkdir
    \/ SendListingRequest
    \/ ReceiveListing
    \/ ScanLocal
    \/ Plan
    \/ SendContentRequest
    \/ FinishDownload
    \/ Report

Spec == Init /\ [][Next]_vars

\* ------------------------------------------------ the settings update
sync_vars ==
    <<pc, appdata, dir_exists, disk, initial, response, github_files, local_files,
      files_to_update, files_to_preserve, remaining, file_name, total_downloaded,
      in_flight, listing_requests, fetch_log, returned, outcome_kind>>

\* The settings update starts after a finished synchronisation, with any
\* directory contents and any settings document, or none, on disk.
SettingsInit ==
    /\ pc = "done"
    /\ appdata = "C:/Users/u/AppData/Roaming"
    /\ dir_exists = TRUE
    /\ disk \in [Names -> LocalTexts \cup {Absent}]
    /\ initial = [dir_exists |-> dir_exists, disk |-> disk]
    /\ response = NotReceived
    /\ github_files = {}
    /\ local_files = {}
    /\ files_to_update = {}
    /\ files_to_preserve = {}
    /\ remaining = <<>>
    /\ file_name = NoFile
    /\ total_downloaded = 0
    /\ in_flight = {}
    /\ listing_requests = 0
    /\ fetch_log = <<>>
    /\ returned = [n \in Names |-> "none"]
    /\ outcome_kind = [n \in Names |-> "none"]
    /\ settings_file \in {Missing} \cup {Serialize(m) : m \in Mappings}
    /\ settings = EmptyMapping
    /\ loaded_settings = EmptyMapping
    /\ settings_pc = "load"

\* Load-or-default-empty: a missing file yields an empty mapping.
load_settings ==
    /\ settings_pc = "load"
    /\ settings' = IF settings_file = Missing THEN EmptyMapping ELSE Parse(settings_file)
    /\ loaded_settings' = settings'
    /\ settings_pc' = "update"
    /\ UNCHANGED <<sync_vars, settings_file>>

ReplaceAll(m, value) == [k \in {ListKey} |-> value]

\* The mapping with the list key set and every other key kept.
WithList(m, value) ==
    [k \in DOMAIN m \cup {ListKey} |-> IF k = ListKey THEN value ELSE m[k]]

\* The file-list field is set to the current contents of the directory.
update_file_list ==
    /\ settings_pc = "update"
    /\ settings' = WithList(settings, get_local_files(dir_exists, disk))
    /\ settings_pc' = "save"
    /\ UNCHANGED <<sync_vars, settings_file, loaded_settings>>

\* The mapping is serialised and written over the settings file.
save_settings ==
    /\ settings_pc = "save"
    /\ settings_file' = Serialize(settings)
    /\ settings_pc' = "saved"
    /\ UNCHANGED <<sync_vars, settings, loaded_settings>>

SettingsNext ==
    \/ load_settings
    \/ update_file_list
    \/ save_settings

SettingsSpec == SettingsInit /\ [][SettingsNext]_vars

\* ------------------------------------------------------------ properties
\* A name is some prefix followed by ".instructions.md".
HasSuffix(n) == \E k \in 0..Len(n) : n = SubSeq(n, 1, k) \o Suffix
SuffixNames == {n \in Names : HasSuffix(n)}

\* Names of the files in a directory state.
Existing(d) == {n \in Names : d[n] # Absent}

\* The names the remote listing returned: the string names of the array of a
\* 200 response.
ListedNames ==
    IF response.raised \/ response.status_code # 200 \/ ~response.valid_json THEN {}
    ELSE {n \in Names : \E i \in 1..Len(response.json) :
                            response.json[i] = [kind |-> "dict", name |-> n]}

\* L and R of the specification.
LocalSetL == Existing(initial.disk) \cap SuffixNames
RemoteSetR == ListedNames \cap SuffixNames

Planned == pc \in {"loop", "download_file", "done"}
ListingFailed == ~response.raised /\ response.status_code \in StatusCodes \ {200}
Fetched == set(fetch_log)

\* C1: once the plan is computed, the update set is exactly L \cap R and the
\* preserved set is exactly L \ R; they are disjoint and their union is L.
C1_UpdateAndPreserveSets ==
    Planned =>
        /\ files_to_update = LocalSetL \cap RemoteSetR
        /\ files_to_preserve = LocalSetL \ RemoteSetR
        /\ files_to_update \cap files_to_preserve = {}
        /\ files_to_update \cup files_to_preserve = LocalSetL

C1_Witness ==
    /\ Planned
    /\ files_to_update # {}
    /\ files_to_preserve # {}
    /\ RemoteSetR \ LocalSetL # {}
    /\ Existing(initial.disk) \ SuffixNames # {}

\* C2: no file is ever created: the names in the directory stay within the
\* names that were there at the start, and a name that is only in the remote
\* listing is never fetched and never written.
C2_NeverCreated ==
    /\ Existing(disk) \subseteq Existing(initial.disk)
    /\ \A n \in ListedNames \ Existing(initial.disk) :
        /\ n \notin Fetched
        /\ disk[n] = Absent
        /\ returned[n] = "none"

C2_Witness ==
    /\ pc = "done"
    /\ total_downloaded > 0
    /\ RemoteSetR \ Existing(initial.disk) # {}

\* C3: no local file is deleted, and a local file whose name is not in the
\* remote listing keeps its existence and its content.
C3_PreservedUnchanged ==
    /\ Existing(initial.disk) \subseteq Existing(disk)
    /\ initial.dir_exists => dir_exists
    /\ \A n \in Existing(initial.disk) \ ListedNames : disk[n] = initial.disk[n]
    /\ \A n \in files_to_preserve : disk[n] = initial.disk[n] /\ disk[n] # Absent

C3_Witness ==
    /\ pc = "done"
    /\ files_to_preserve # {}
    /\ \E n \in files_to_update : disk[n] # initial.disk[n]
    /\ \E n \in files_to_update : outcome_kind[n] = "write_error"

\* C4: after a non-200 listing response the remote list and the update set
\* are empty, nothing is requested or written, the run goes on to its end
\* with a count of 0 and every local instructions file is preserved.
C4_ListingFailure ==
    ListingFailed =>
        /\ github_files = {}
        /\ files_to_update = {}
        /\ remaining = <<>>
        /\ fetch_log = <<>>
        /\ in_flight = {}
        /\ disk = initial.disk
        /\ total_downloaded = 0
        /\ pc \in {"get_local_files", "plan", "loop", "done"}
        /\ Planned => files_to_preserve = LocalSetL

C4_Witness ==
    /\ pc = "done"
    /\ ListingFailed
    /\ response.valid_json
    /\ \E i \in 1..Len(response.json) :
           /\ response.json[i].kind = "dict"
           /\ response.json[i].name \in LocalSetL
    /\ files_to_preserve # {}

\* C5: no request is repeated, and when the run is done every file of the
\* update set has been fetched exactly once, whatever each download returned.
C5_FetchedExactlyOnce ==
    /\ listing_requests <= 1
    /\ \A i, j \in 1..Len(fetch_log) : fetch_log[i] = fetch_log[j] => i = j
    /\ Fetched \subseteq files_to_update
    /\ Planned => listing_requests = 1
    /\ pc = "loop" => Fetched \cup set(remaining) = files_to_update
    /\ pc = "done" =>
        /\ Fetched = files_to_update
        /\ Len(fetch_log) = Cardinality(files_to_update)

C5_Witness ==
    /\ pc = "done"
    /\ Len(fetch_log) >= 3
    /\ returned[fetch_log[1]] = "False"
    /\ returned[fetch_log[2]] = "True"
    /\ returned[fetch_log[3]] = "False"

\* C6: both lists hold only names ending in ".instructions.md", and a file
\* with another name is never in the update set, never fetched and never
\* overwritten.
C6_SuffixFilter ==
    /\ github_files \subseteq SuffixNames
    /\ local_files \subseteq SuffixNames
    /\ \A n \in Names \ SuffixNames :
        /\ n \notin files_to_update
        /\ n \notin Fetched
        /\ returned[n] = "none"
        /\ disk[n] = initial.disk[n]

C6_Witness ==
    /\ pc = "done"
    /\ total_downloaded > 0
    /\ \E n \in Names \ SuffixNames : n \in Existing(initial.disk) /\ n \in ListedNames

\* C8: with APPDATA missing or empty the run only aborts: no directory is
\* created, no request is sent, no file is written and sync_copilot_files
\* is not entered.
C8_MissingAppData ==
    appdata \in {None, ""} =>
        /\ pc \in {"main", "aborted"}
        /\ dir_exists = initial.dir_exists
        /\ disk = initial.disk
        /\ listing_requests = 0
        /\ fetch_log = <<>>
        /\ in_flight = {}

C8_Witness ==
    /\ pc = "aborted"
    /\ appdata = ""
    /\ ~dir_exists

\* C9: a download whose request failed returns False and leaves the file as
\* it was before the run, and the count equals the number of downloads that
\* returned True.
C9_FailedDownload ==
    /\ \A n \in Names :
        outcome_kind[n] \in {"request_exception", "http_error"} =>
            /\ returned[n] = "False"
            /\ disk[n] = initial.disk[n]
    /\ total_downloaded = Cardinality({n \in Names : returned[n] = "True"})

C9_Witness ==
    /\ pc = "done"
    /\ \E n \in Names : outcome_kind[n] = "http_error"
    /\ \E n \in Names : outcome_kind[n] = "request_exception"
    /\ \E n \in Names : returned[n] = "True" /\ disk[n] # initial.disk[n]

\* C10: at most one request is in progress; content is requested only after
\* the listing was received and the directory scanned; files are requested
\* in ascending order of name, each one after the previous one has finished.
C10_Sequential ==
    /\ Cardinality(in_flight) <= 1
    /\ ListingRequest \in in_flight => pc = "await_listing" /\ fetch_log = <<>>
    /\ fetch_log # <<>> =>
        /\ listing_requests = 1
        /\ response # NotReceived
        /\ Fetched \subseteq local_files
    /\ \A i \in 1..Len(fetch_log) :
        /\ i < Len(fetch_log) =>
            /\ StrLess(fetch_log[i], fetch_log[i + 1])
            /\ returned[fetch_log[i]] # "none"
            /\ ContentRequest(fetch_log[i]) \notin in_flight
        /\ i = Len(fetch_log) =>
            (ContentRequest(fetch_log[i]) \in in_flight <=> returned[fetch_log[i]] = "none")

C10_Witness ==
    /\ pc = "done"
    /\ fetch_log = <<NameDot, NameB, NameA>>
    /\ returned[NameB] = "False"

\* C7: loading a missing settings file yields an empty mapping, and the
\* saved text is valid JSON that holds every key that was loaded, with its
\* value, and the file-list key with the current list of local files.
C7_SettingsRoundTrip ==
    /\ settings_pc = "update" /\ settings_file = Missing => settings = EmptyMapping
    /\ settings_pc = "saved" =>
        /\ ValidJSON(settings_file)
        /\ DOMAIN Parse(settings_file) = DOMAIN loaded_settings \cup {ListKey}
        /\ \A k \in DOMAIN loaded_settings \ {ListKey} :
               Parse(settings_file)[k] = loaded_settings[k]
        /\ Parse(settings_file)[ListKey] = listdir([n \in Names |->
               IF n \in SuffixNames THEN disk[n] ELSE Absent])

C7_Witness ==
    /\ settings_pc = "saved"
    /\ DOMAIN loaded_settings = SettingsKeys
    /\ loaded_settings[ListKey] # Parse(settings_file)[ListKey]
    /\ Parse(settings_file)[ListKey] # <<>>

====
